---- MODULE Spec2Model ----
(***************************************************************************)
(* Model of the multimodal brief generator (src/src/processor.py):         *)
(* Processor.llm / _load_model_with_fallback (lazy model loading with      *)
(* fallback), Processor.process_video (request shaping, retry loop, save)  *)
(* and process_video_file.                                                 *)
(*                                                                         *)
(* Texts are sequences.  Model identifiers and error messages are          *)
(* sequences of tokens (a token is a fragment of the Python string), so    *)
(* that `x in s` is a contiguous-subsequence test and f"...{e}" is \o.     *)
(* Model responses, titles and file names are sequences of characters.     *)
(***************************************************************************)
EXTENDS Integers, Sequences, FiniteSets, TLC

(***************************************************************************)
(* Bounds of the model                                                     *)
(***************************************************************************)
\* longest configured FALLBACK_MODELS list that Init enumerates
MaxFallbacks == 1
\* most lines of a response put together from title lines
MaxLines == 3
\* most video files under INPUT_DIR
MaxVideos == 2

(***************************************************************************)
(* Program constants                                                       *)
(***************************************************************************)
\* max_retries = 3
max_retries == 3
\* len(content_brief.strip()) < 10
MinBriefLen == 10
\* time.sleep(0.5) in the loader, in milliseconds
LoadPauseMs == 500
\* time.sleep(1) in the retry loop, in milliseconds
RetryPauseMs == 1000
\* min(attempt * 2, 10): the factor and the cap, in seconds
BackoffFactor == 2
BackoffCap == 10

(***************************************************************************)
(* Python values that are not strings                                      *)
(***************************************************************************)
\* None
None == <<"<None>">>
\* a local variable that has not been assigned yet
Unbound == <<"<unbound>">>
\* the key FALLBACK_MODELS is missing from the configuration
Absent == <<"<absent>">>

(***************************************************************************)
(* Generic text helpers                                                    *)
(***************************************************************************)
\* pat in s  (contiguous sub-sequence)
Contains(s, pat) ==
    \E i \in 1..(Len(s) - Len(pat) + 1) : SubSeq(s, i, i + Len(pat) - 1) = pat

\* x in lst  (list membership)
InList(x, lst) == \E i \in DOMAIN lst : lst[i] = x

\* str.lower() of one token
LowerTok(t) ==
    CASE t = "Rate Limit" -> "rate limit"
      [] t = "Quota" -> "quota"
      [] t = "Gemini" -> "gemini"
      [] t = "Claude" -> "claude"
      [] OTHER -> t

\* str.lower() of a token text
Lower(s) == [i \in DOMAIN s |-> LowerTok(s[i])]

\* str.isspace() of one character
IsSpace(c) == c \in {" ", "\n", "\t"}

\* characters for which str.isalnum() holds, among those the model uses
AlnumChars ==
    {"a", "b", "d", "e", "i", "l", "o", "r", "s", "t", "x", "y", "z",
     "A", "B", "E", "F", "I", "L", "M", "T", "V", "1", "2", "3", "4"}

\* str.isalnum() of one character
IsAlnum(c) == c \in AlnumChars

\* index of the first character of s at or after i that is not white space
\* (Len(s) + 1 when there is none): the effect of a greedy \s*
RECURSIVE SkipSpace(_, _)
SkipSpace(s, i) ==
    IF i > Len(s) THEN Len(s) + 1
    ELSE IF IsSpace(s[i]) THEN SkipSpace(s, i + 1) ELSE i

\* index of the last character of s at or before i that is not white space
RECURSIVE SkipSpaceBack(_, _)
SkipSpaceBack(s, i) ==
    IF i < 1 THEN 0
    ELSE IF IsSpace(s[i]) THEN SkipSpaceBack(s, i - 1) ELSE i

\* str.strip()
Strip(s) == SubSeq(s, SkipSpace(s, 1), SkipSpaceBack(s, Len(s)))

\* index of the first occurrence of character c in s at or after i
\* (Len(s) + 1 when there is none)
RECURSIVE FindChar(_, _, _)
FindChar(s, c, i) ==
    IF i > Len(s) THEN Len(s) + 1
    ELSE IF s[i] = c THEN i ELSE FindChar(s, c, i + 1)

\* s[i:i+len(lit)] == lit
LitAt(s, lit, i) ==
    /\ i >= 1
    /\ i + Len(lit) - 1 <= Len(s)
    /\ SubSeq(s, i, i + Len(lit) - 1) = lit

\* n copies of character c
Rep(c, n) == [i \in 1..n |-> c]

\* least element of a non-empty set of integers
MinOf(S) == CHOOSE x \in S : \A y \in S : x <= y

(***************************************************************************)
(* extract_title_from_brief: three re.search calls, tried in order         *)
(***************************************************************************)
\* the regex tail  \s*"([^"]+)"  matches at cursor c
HasQuoted(s, c) ==
    LET k == SkipSpace(s, c)
        q == FindChar(s, "\"", k + 1)
    IN  /\ k <= Len(s)
        /\ s[k] = "\""
        /\ q <= Len(s)
        /\ q >= k + 2

\* group 1 of the regex tail  \s*"([^"]+)"  matched at cursor c
QuotedCapture(s, c) ==
    LET k == SkipSpace(s, c)
        q == FindChar(s, "\"", k + 1)
    IN  SubSeq(s, k + 1, q - 1)

\* r'Ad (?:.*?):\s*"([^"]+)"' matches with 'Ad ' at i and the ':' at j
Pattern1At(s, i, j) ==
    /\ LitAt(s, <<"A", "d", " ">>, i)
    /\ j >= i + 3
    /\ j <= Len(s)
    /\ s[j] = ":"
    /\ \A m \in (i + 3)..(j - 1) : s[m] # "\n"
    /\ HasQuoted(s, j + 1)

\* re.search(r'Ad (?:.*?):\s*"([^"]+)"', s): leftmost start, lazy .*?
Pattern1(s) ==
    LET starts == {i \in 1..Len(s) : \E j \in 1..Len(s) : Pattern1At(s, i, j)}
    IN  IF starts = {} THEN None
        ELSE LET i0 == MinOf(starts)
                 j0 == MinOf({j \in 1..Len(s) : Pattern1At(s, i0, j)})
             IN  QuotedCapture(s, j0 + 1)

\* r'Video Title:\s*"([^"]+)"' matches with 'Video Title:' at i
Pattern2At(s, i) ==
    /\ LitAt(s, <<"V", "i", "d", "e", "o", " ", "T", "i", "t", "l", "e", ":">>, i)
    /\ HasQuoted(s, i + 12)

\* re.search(r'Video Title:\s*"([^"]+)"', s)
Pattern2(s) ==
    LET starts == {i \in 1..Len(s) : Pattern2At(s, i)}
    IN  IF starts = {} THEN None
        ELSE QuotedCapture(s, MinOf(starts) + 12)

\* the places where (?:^|\n) can match: begin of the match, alternative
\* taken (1 is ^, 2 is \n) and the cursor behind it
Pattern3Starts(s) ==
    {[begin |-> 1, alt |-> 1, cur |-> 1]}
      \cup {[begin |-> i, alt |-> 2, cur |-> i + 1] : i \in {m \in 1..Len(s) : s[m] = "\n"}}

\* \s*(?:Title|title): matches at cursor c
Pattern3At(s, c) ==
    LET t == SkipSpace(s, c)
    IN  /\ \/ LitAt(s, <<"T", "i", "t", "l", "e">>, t)
           \/ LitAt(s, <<"t", "i", "t", "l", "e">>, t)
        /\ LitAt(s, <<":">>, t + 5)

\* group 1 of  \s*"?([^"]*)"?  matched behind the ':' of a match at cursor c
Pattern3Capture(s, c) ==
    LET t == SkipSpace(s, c)
        a == SkipSpace(s, t + 6)
        b == IF a <= Len(s) /\ s[a] = "\"" THEN a + 1 ELSE a
        q == FindChar(s, "\"", b)
    IN  SubSeq(s, b, q - 1)

\* re.search(r'(?:^|\n)\s*(?:Title|title):\s*"?([^"]*)"?', s)
Pattern3(s) ==
    LET ms == {m \in Pattern3Starts(s) : Pattern3At(s, m.cur)}
    IN  IF ms = {} THEN None
        ELSE LET m0 == CHOOSE m \in ms : \A n \in ms :
                           \/ m.begin < n.begin
                           \/ m.begin = n.begin /\ m.alt <= n.alt
             IN  Pattern3Capture(s, m0.cur)

\* the third pattern is consulted first
extract_title_Pattern3First(s) ==
    IF Pattern3(s) # None THEN Pattern3(s)
    ELSE IF Pattern1(s) # None THEN Pattern1(s)
    ELSE Pattern2(s)

\* extract_title_from_brief(content_brief)
extract_title_from_brief(s) ==
    IF Pattern1(s) # None THEN Pattern1(s)
    ELSE IF Pattern2(s) # None THEN Pattern2(s)
    ELSE Pattern3(s)

(***************************************************************************)
(* File name of the brief (process_video, lines 194-201)                   *)
(***************************************************************************)
\* every character that is not allowed becomes an underscore
KeepSafe_Underscore(t) ==
    [i \in DOMAIN t |->
        IF IsAlnum(t[i]) \/ t[i] \in {" ", "-", "_", "(", ")", "[", "]"} THEN t[i] ELSE "_"]

\* ''.join(c for c in t if c.isalnum() or c in ' -_()[]')
KeepSafe(t) ==
    SelectSeq(t, LAMBDA c : IsAlnum(c) \/ c \in {" ", "-", "_", "(", ")", "[", "]"})

\* str.replace(' ', '_')
ReplaceSpaces(t) == [i \in DOMAIN t |-> IF t[i] = " " THEN "_" ELSE t[i]]

\* safe_file_title without .strip()
SafeFileTitle_NoStrip(file_title) == ReplaceSpaces(KeepSafe(file_title))

\* safe_file_title
SafeFileTitle(file_title) == ReplaceSpaces(Strip(KeepSafe(file_title)))

\* title if title is not None else video_name
FileTitle_NoneOnly(title, name) == IF title = None THEN name ELSE title

\* title if title else video_name
FileTitle(title, name) == IF title = None \/ title = <<>> THEN name ELSE title

\* output_file = os.path.join(BRIEF_DIR, safe_file_title + BRIEF_EXTENSION)
OutputFile(content, name) ==
    <<"BRIEF_DIR", "/">> \o SafeFileTitle(FileTitle(extract_title_from_brief(content), name))
                        \o <<"BRIEF_EXTENSION">>

(***************************************************************************)
(* Model identifiers and provider families                                 *)
(***************************************************************************)
GeminiPro == <<"gemini", "-2.5-pro">>
GeminiFlash == <<"gemini", "-2.5-flash">>
Gemini20Flash == <<"gemini", "-2.0-flash-001">>
Gemini20FlashLite == <<"gemini", "-2.0-flash-lite-001">>
ClaudeSonnet == <<"anthropic.", "claude", "-3-sonnet-20240229-v1:0">>
Gpt4o == <<"gpt-4o">>

\* DEFAULT_FALLBACK_MODELS
DEFAULT_FALLBACK_MODELS ==
    <<GeminiPro, GeminiFlash, Gemini20Flash, Gemini20FlashLite, ClaudeSonnet>>

\* identifiers a configuration may name (one per provider family)
Models == {GeminiPro, ClaudeSonnet, Gpt4o}

\* every identifier load_model can be called with
AllModels == Models \cup {DEFAULT_FALLBACK_MODELS[i] : i \in DOMAIN DEFAULT_FALLBACK_MODELS}

\* the configured FALLBACK_MODELS lists that Init enumerates
FallbackLists == UNION {[1..n -> Models] : n \in 0..MaxFallbacks}

\* the if / elif / else on model_name.lower() (lines 134, 163, 171)
Family(model_name) ==
    IF Contains(Lower(model_name), <<"gemini">>) THEN "gemini"
    ELSE IF Contains(Lower(model_name), <<"claude">>) THEN "claude"
    ELSE "generic"

\* the fallback models are appended without the membership test
AddFallbacks_NoDedupe(models_to_try, fallback_models) == models_to_try \o fallback_models

\* for model in fallback_models: if model not in models_to_try: append
RECURSIVE AddFallbacks(_, _)
AddFallbacks(models_to_try, fallback_models) ==
    IF fallback_models = <<>> THEN models_to_try
    ELSE AddFallbacks(
             IF InList(Head(fallback_models), models_to_try) THEN models_to_try
             ELSE Append(models_to_try, Head(fallback_models)),
             Tail(fallback_models))

\* models_to_try of _load_model_with_fallback
ModelsToTry(primary, configured) ==
    AddFallbacks(<<primary>>,
                 IF configured = Absent THEN DEFAULT_FALLBACK_MODELS ELSE configured)

(***************************************************************************)
(* What the collaborators can answer                                       *)
(***************************************************************************)
\* error texts of the gateway's invoke
ErrSystemField == <<"Unknown field", " for GenerationConfig: system">>
ErrBadRequest == <<"400", " Bad Request">>
ErrRateLimit == <<"Rate Limit", " exceeded">>
ErrTimeout == <<"Connection timed out">>
\* the format error of a gateway that also reports its quota
ErrSystemFieldQuota ==
    <<"Quota", " exhausted; ", "Unknown field", " for GenerationConfig: system">>
InvokeErrors == {ErrSystemField, ErrBadRequest, ErrRateLimit, ErrTimeout, ErrSystemFieldQuota}

\* error texts of load_model
ErrNoSuchModel == <<"model not available">>
ErrLoadQuota == <<"Quota", " exhausted for team">>
LoadErrors == {ErrNoSuchModel, ErrLoadQuota}

\* error text of os.makedirs / open / write
ErrSave == <<"[Errno 28] No space left on device">>

\* a response made of n letters between p blanks on either side
Padded(p, n) == Rep(" ", p) \o Rep("x", n) \o Rep(" ", p)

\* a valid response that carries a title line:  Title: a/b
TitledBrief == <<"T", "i", "t", "l", "e", ":", " ", "a", "/", "b">>

\* what invoke can return: None, the empty text, a text that is long enough
\* only with its surrounding blanks, and two texts that are long enough
Responses ==
    {None, <<>>, Padded(1, MinBriefLen - 1), Padded(0, MinBriefLen), TitledBrief}

\* names of the source video (file name without extension)
VideoNames == {<<"a", "d", " ", "1">>}

(***************************************************************************)
(* Accepted responses that carry title lines                               *)
(***************************************************************************)
\* the line  Ad 3: "Foo"  (pattern 1)
AdFooLine ==
    <<"A", "d", " ", "3", ":", " ", "\"", "F", "o", "o", "\"">>

\* the line  Video Title: "Baz"  (pattern 2)
VideoTitleBazLine ==
    <<"V", "i", "d", "e", "o", " ", "T", "i", "t", "l", "e", ":", " ",
      "\"", "B", "a", "z", "\"">>

\* the line  Title: "Bar"  (pattern 3)
TitleBarLine ==
    <<"T", "i", "t", "l", "e", ":", " ", "\"", "B", "a", "r", "\"">>

\* the titles of these lines
Foo ==
    <<"F", "o", "o">>
Baz ==
    <<"B", "a", "z">>
Bar ==
    <<"B", "a", "r">>

\* a line without a title
BodyLine == Rep("x", MinBriefLen)

\* '\n'.join(lines)
RECURSIVE JoinLines(_)
JoinLines(lines) ==
    IF Len(lines) = 0 THEN <<>>
    ELSE IF Len(lines) = 1 THEN lines[1]
    ELSE lines[1] \o <<"\n">> \o JoinLines(Tail(lines))

\* the lines a response is put together from
BriefLines == {AdFooLine, VideoTitleBazLine, TitleBarLine, BodyLine}

\* responses of up to MaxLines different lines, in every order
PrecedenceBriefs ==
    {JoinLines(a) : a \in {b \in UNION {[1..n -> BriefLines] : n \in 1..MaxLines} :
                               \A i, j \in DOMAIN b : i # j => b[i] # b[j]}}

\* the response  title: Foo
LowerTitleBrief ==
    <<"t", "i", "t", "l", "e", ":", " ", "F", "o", "o">>

\* the response  TITLE: "Bar"
UpperTitleBrief ==
    <<"T", "I", "T", "L", "E", ":", " ", "\"", "B", "a", "r", "\"">>

\* the response  Title: Foo  followed by a line of text
TwoLineTitleBrief ==
    <<"T", "i", "t", "l", "e", ":", " ", "F", "o", "o", "\n", "x", "x",
      "x", "x", "x", "x", "x", "x", "x", "x">>

\* the response  a line of text followed by the indented line  Title: "Bar"
IndentedTitleBrief ==
    <<"x", "x", "x", "x", "x", "x", "x", "x", "x", "x", "\n", " ", " ",
      "T", "i", "t", "l", "e", ":", " ", "\"", "B", "a", "r", "\"">>

\* the response  Title: "Bar"  in the middle of a line
MidLineTitleBrief ==
    <<"x", "x", " ", "T", "i", "t", "l", "e", ":", " ", "\"", "B", "a",
      "r", "\"">>

\* the response  Title: My/Ad: Test*
SlashTitleBrief ==
    <<"T", "i", "t", "l", "e", ":", " ", "M", "y", "/", "A", "d", ":", " ",
      "T", "e", "s", "t", "*">>

\* the response  Title: ""  followed by a line of text
EmptyTitleBrief ==
    <<"T", "i", "t", "l", "e", ":", " ", "\"", "\"", "\n", "x", "x", "x",
      "x", "x", "x", "x", "x", "x", "x">>

\* the response  Title: " (a-b)_[1] "
PaddedTitleBrief ==
    <<"T", "i", "t", "l", "e", ":", " ", "\"", " ", "(", "a", "-", "b",
      ")", "_", "[", "1", "]", " ", "\"">>

\* the response  Title: "a  b y"
SpacedTitleBrief ==
    <<"T", "i", "t", "l", "e", ":", " ", "\"", "a", " ", " ", "b", " ",
      "y", "\"">>

\* the response  Title: "***"
StarTitleBrief ==
    <<"T", "i", "t", "l", "e", ":", " ", "\"", "*", "*", "*", "\"">>

\* responses that only the third pattern can match
Pattern3Briefs ==
    {LowerTitleBrief, UpperTitleBrief, TwoLineTitleBrief, IndentedTitleBrief, MidLineTitleBrief}

\* responses whose titles need sanitizing
SanitizeBriefs ==
    {SlashTitleBrief, EmptyTitleBrief, PaddedTitleBrief, SpacedTitleBrief, StarTitleBrief}

\* the accepted responses the save step is applied to
BriefTexts == PrecedenceBriefs \cup Pattern3Briefs \cup SanitizeBriefs

\* names of the source videos the save step is applied to:  ad 1  and  a.b
BriefVideoNames == {<<"a", "d", " ", "1">>, <<"a", ".", "b">>}

\* the length test without .strip()
TooShort_NoStrip(content) ==
    \/ content = None
    \/ content = <<>>
    \/ Len(content) < MinBriefLen

\* only  if not content_brief
TooShort_EmptyOnly(content) ==
    \/ content = None
    \/ content = <<>>

\* if not content_brief or len(content_brief.strip()) < 10
TooShort(content) ==
    \/ content = None
    \/ content = <<>>
    \/ Len(Strip(content)) < MinBriefLen

(***************************************************************************)
(* Exceptions                                                              *)
(***************************************************************************)
\* no exception was raised
NoException == [type |-> "none", msg |-> <<>>]

\* RuntimeError(f"All multimodal models failed to load: Last error: {error_msg}")
AllFailedMsg(reason) == <<"All multimodal models failed to load: Last error: ">> \o reason

\* RuntimeError(f"Failed to process video after {max_retries} attempts: {error_msg}")
ExhaustedMsg(reason) ==
    <<"Failed to process video after ", ToString(max_retries), " attempts: ">> \o reason

\* str() of the UnboundLocalError raised when a local is read before assignment
UnboundLocalMsg(var) == <<"cannot access local variable ", var>>

\* the rate-limit test comes before the format test
RetryDelay_RateFirst(msg, k) ==
    IF \/ Contains(Lower(msg), <<"rate limit">>)
       \/ Contains(Lower(msg), <<"quota">>)
    THEN (IF k * BackoffFactor < BackoffCap THEN k * BackoffFactor ELSE BackoffCap) * 1000
    ELSE IF Contains(msg, <<"Unknown field", " for GenerationConfig: system">>) THEN 0
    ELSE RetryPauseMs

\* the wait chosen by the except block of the retry loop, in milliseconds
RetryDelay(msg, k) ==
    IF Contains(msg, <<"Unknown field", " for GenerationConfig: system">>) THEN 0
    ELSE IF \/ Contains(Lower(msg), <<"rate limit">>)
            \/ Contains(Lower(msg), <<"quota">>)
         THEN (IF k * BackoffFactor < BackoffCap THEN k * BackoffFactor ELSE BackoffCap) * 1000
    ELSE RetryPauseMs

\* payload shape of the call-th invocation of an attempt in branch f
Shape(f, c) ==
    CASE f = "gemini" /\ c = 1 -> "instruction_array"
      [] f = "gemini" /\ c = 2 -> "contents_envelope"
      [] f = "claude" -> "system_parameter"
      [] f = "generic" /\ c = 1 -> "system_parameter"
      [] f = "generic" /\ c = 2 -> "prompt_array"

(***************************************************************************)
(* State                                                                   *)
(***************************************************************************)
VARIABLES
    \* configuration and input
    primary_model_name,   \* self.primary_model_name
    FALLBACK_MODELS,      \* config['FALLBACK_MODELS'], or Absent
    video_name,           \* base name of the video, without extension
    video_exists,         \* os.path.exists(video_path)
    \* position in process_video_file / process_video
    pc,                   \* "init", "call", "save", "returned", "raised"
    attempt,              \* loop variable of the retry loop
    fmt,                  \* branch of the attempt: "gemini", "claude", "generic"
    call,                 \* which invocation of the attempt comes next (1, 2)
    content_brief,        \* local of process_video
    error_msg,            \* local of process_video
    \* Processor fields and the loader's locals
    llm,                  \* self._llm: None or the identifier of the handle
    working_model_name,   \* self.working_model_name
    loadIdx,              \* index in models_to_try of the next candidate
    load_error_msg,       \* error_msg of _load_model_with_fallback
    \* results
    files,                \* brief files on disk: path -> content
    title,                \* local of process_video (line 192)
    safe_file_title,      \* local of process_video (lines 197-198)
    result,               \* the returned (text, path)
    raised,               \* the exception that left process_video_file
    \* what happened so far
    probed,               \* probes of the latest run of the loader, in order:
                          \* the identifier and whether load_model returned
    probeCount,           \* load_model calls per identifier
    loadRuns,             \* runs of _load_model_with_fallback started
    loadSleeps,           \* milliseconds slept by the loader's time.sleep(0.5)
    slept,                \* latest wait of the retry loop: after which attempt, how long
    ended,                \* attempts ended so far, per way of ending
    invokes,              \* invoke calls of the latest attempt that made one
    respondedAt,          \* latest attempt in which an invoke returned (0: none)
    lastCall,             \* the latest invoke: handle, payload shape, attempt
    lastWritten,          \* the text handed to the latest f.write
    lastError,            \* the exception a collaborator raised last, when no
                          \* call has succeeded since: attempt, text
    \* the batch orchestrator (src/src/main.py)
    stage,                \* position of process_all_videos: "single" when
                          \* process_video_file is called on its own, else
                          \* "discover", "loop", "in_file", "done"
    input_dir,            \* numbers of the video files found under INPUT_DIR
    video_files,          \* local of process_all_videos
    file_index,           \* position in video_files of the file in progress
    successful_briefs,    \* local of process_all_videos
    outcomes,             \* per file processed, in order: its number, what
                          \* main.process_video returned, the saved path
    counts,               \* the tuple process_all_videos returned
    \* the transcript-based command-line tool (src/main.py, src/core)
    args,                 \* parse_args(): all, video (its number), transcribe_only
    cli_pc,               \* position: "off" when the tool is not run, else
                          \* "main", "video", "whisper", "transcribe",
                          \* "brief", "load", "invoke", "save", "exited"
    exit_code,            \* exit status of the process, -1 while it runs
    uncaught,             \* type of the exception that left main()
    input_videos,         \* numbers of the video files that exist
    transcript_files,     \* TRANSCRIPT_DIR: video number -> text, or Absent
    brief_files,          \* BRIEF_DIR of the tool: path -> content
    current,              \* video_path of the process_video call in progress
    cli_video_files,      \* video_files of process_all_videos
    cli_i,                \* position in cli_video_files of the file in progress
    successful_transcriptions, \* local of process_all_videos
    cli_successful_briefs,     \* successful_briefs of process_all_videos
    transcript_text,      \* local of process_transcript_file
    cli_content_brief,    \* content_brief of process_transcript
    calls,                \* per video: calls of model.transcribe, load_model
                          \* and llm.invoke made for it
    returns,              \* per process_video call, in order: the video and
                          \* the pair (transcription_success, brief_success)
    summary               \* the counts main() printed

config_vars == <<primary_model_name, FALLBACK_MODELS, video_name, video_exists>>
ctl_vars == <<pc, attempt, fmt, call, error_msg, raised, slept, ended>>
session_vars == <<llm, working_model_name>>
loader_vars == <<loadIdx, load_error_msg, probed, probeCount, loadRuns, loadSleeps>>
invoke_vars == <<content_brief, invokes, respondedAt, lastCall>>
save_vars == <<files, title, safe_file_title, result, lastWritten>>
batch_vars == <<stage, input_dir, video_files, file_index, successful_briefs, outcomes, counts>>
cli_vars == <<args, cli_pc, exit_code, uncaught, input_videos, transcript_files, brief_files,
              current, cli_video_files, cli_i, successful_transcriptions,
              cli_successful_briefs, transcript_text, cli_content_brief, calls, returns,
              summary>>
vars == <<config_vars, ctl_vars, session_vars, loader_vars, invoke_vars, save_vars, lastError,
          batch_vars, cli_vars>>

\* nothing was returned
NoResult == [text |-> None, path |-> None]

\* no invoke was made yet
NoCall == [model |-> None, shape |-> "none", attempt |-> 0]

\* no collaborator call is failing
NoError == [attempt |-> 0, msg |-> <<>>]

\* the ways an attempt can end without a saved brief
EndKinds == {"short", "stale", "error", "savefail"}

\* process_all_videos has not returned
NoCounts == [total |-> -1, successful_briefs |-> -1]

\* the state of a new Processor and of the locals of a process_video call
\* that has not started, with an empty BRIEF_DIR
InitProcessor ==
    /\ attempt = 0
    /\ fmt = "generic"
    /\ call = 1
    /\ content_brief = Unbound
    /\ error_msg = Unbound
    /\ llm = None
    /\ working_model_name = None
    /\ loadIdx = 1
    /\ load_error_msg = Unbound
    /\ files = <<>>
    /\ title = Unbound
    /\ safe_file_title = Unbound
    /\ result = NoResult
    /\ raised = NoException
    /\ probed = <<>>
    /\ probeCount = [m \in AllModels |-> 0]
    /\ loadRuns = 0
    /\ loadSleeps = 0
    /\ slept = [after |-> 0, ms |-> 0]
    /\ ended = [k \in EndKinds |-> 0]
    /\ invokes = [attempt |-> 0, n |-> 0]
    /\ respondedAt = 0
    /\ lastCall = NoCall
    /\ lastWritten = Unbound
    /\ lastError = NoError

\* process_all_videos is not running
InitNoBatch ==
    /\ stage = "single"
    /\ input_dir = {}
    /\ video_files = Unbound
    /\ file_index = 0
    /\ successful_briefs = 0
    /\ outcomes = <<>>
    /\ counts = NoCounts

\* the transcript-based command-line tool is not run
NoArgs == [all |-> FALSE, video |-> 0, transcribe_only |-> FALSE]

InitNoCli ==
    /\ args = NoArgs
    /\ cli_pc = "off"
    /\ exit_code = -1
    /\ uncaught = NoException.type
    /\ input_videos = {}
    /\ transcript_files = <<>>
    /\ brief_files = <<>>
    /\ current = 0
    /\ cli_video_files = Unbound
    /\ cli_i = 0
    /\ successful_transcriptions = 0
    /\ cli_successful_briefs = 0
    /\ transcript_text = Unbound
    /\ cli_content_brief = Unbound
    /\ calls = <<>>
    /\ returns = <<>>
    /\ summary = [total |-> -1, transcriptions |-> -1, briefs |-> -1]

\* process_video_file(video_path, config) is called, for every configuration
Init ==
    /\ primary_model_name \in Models
    /\ FALLBACK_MODELS \in FallbackLists \cup {Absent}
    /\ video_name \in VideoNames
    /\ video_exists \in BOOLEAN
    /\ pc = "init"
    /\ InitProcessor
    /\ InitNoBatch
    /\ InitNoCli

(***************************************************************************)
(* Control flow of the retry loop (process_video, lines 125-232)           *)
(***************************************************************************)
\* model_name = self.working_model_name or ""
ModelNameOf(working) == IF working = None THEN <<>> ELSE working

\* the loop moves on to attempt k: the branch is chosen from the working model
StartAttempt(k) ==
    /\ attempt' = k
    /\ fmt' = Family(ModelNameOf(working_model_name))
    /\ call' = 1
    /\ pc' = "call"

\* the statement behind the loop (line 232)
RaiseExhausted(msg) ==
    /\ pc' = "raised"
    /\ raised' = IF msg = Unbound
                 THEN [type |-> "UnboundLocalError", msg |-> UnboundLocalMsg("error_msg")]
                 ELSE [type |-> "RuntimeError", msg |-> ExhaustedMsg(msg)]
    /\ UNCHANGED <<attempt, fmt, call>>

\* range(1, max_retries): one iteration less
LoopHasNext_OneLess(k) == k < max_retries - 1

\* for attempt in range(1, max_retries + 1): is there an iteration after k
LoopHasNext(k) == k < max_retries

\* if attempt <= max_retries
RetriesLeft_Always(k) == k <= max_retries

\* if attempt < max_retries   (line 216)
RetriesLeft(k) == k < max_retries

\* except Exception as e  of the retry loop (lines 212-229), e with text msg
Handler(msg, kind) ==
    /\ error_msg' = msg
    /\ ended' = [ended EXCEPT ![kind] = @ + 1]
    /\ slept' = IF RetriesLeft(attempt)
                THEN [after |-> attempt, ms |-> RetryDelay(msg, attempt)]
                ELSE slept
    /\ IF LoopHasNext(attempt)
       THEN StartAttempt(attempt + 1) /\ UNCHANGED raised
       ELSE RaiseExhausted(msg)

\* continue  (line 189)
Continue(kind) ==
    /\ ended' = [ended EXCEPT ![kind] = @ + 1]
    /\ UNCHANGED <<error_msg, slept>>
    /\ IF LoopHasNext(attempt)
       THEN StartAttempt(attempt + 1) /\ UNCHANGED raised
       ELSE RaiseExhausted(error_msg)

\* lines 187-189, reached with the local content_brief holding content;
\* fresh tells whether an invoke of this attempt returned it
AfterInvoke(content, fresh) ==
    IF content = Unbound
    THEN Handler(UnboundLocalMsg("content_brief"), "error")
    ELSE IF TooShort(content)
    THEN Continue(IF fresh THEN "short" ELSE "stale")
    ELSE /\ pc' = "save"
         /\ UNCHANGED <<attempt, fmt, call, error_msg, raised, slept, ended>>

\* only  if "Unknown field" in str(e)
GeminiFormatError_UnknownFieldOnly(msg) == Contains(msg, <<"Unknown field">>)

\* if "Unknown field" in str(e) or "400" in str(e)   (line 151)
GeminiFormatError(msg) ==
    Contains(msg, <<"Unknown field">>) \/ Contains(msg, <<"400">>)

\* an exception with text msg leaves self.llm.invoke(...) (or self.llm):
\* the inner try blocks of the gemini and generic branches, else the loop's
OnCallError(msg) ==
    CASE fmt = "gemini" /\ call = 1 ->
             IF GeminiFormatError(msg)
             THEN /\ call' = 2
                  /\ UNCHANGED <<pc, attempt, fmt, error_msg, raised, slept, ended>>
             ELSE AfterInvoke(content_brief, FALSE)
      [] fmt = "generic" /\ call = 1 ->
             /\ call' = 2
             /\ UNCHANGED <<pc, attempt, fmt, error_msg, raised, slept, ended>>
      [] OTHER -> Handler(msg, "error")

(***************************************************************************)
(* process_video_file (lines 264-295)                                      *)
(***************************************************************************)
\* process_video_file without the os.path.exists test
ProcessVideoFile_NoCheck ==
    /\ pc = "init"
    /\ StartAttempt(1)
    /\ UNCHANGED <<error_msg, raised, slept, ended>>
    /\ UNCHANGED <<config_vars, session_vars, loader_vars, invoke_vars, save_vars, lastError,
                   batch_vars, cli_vars>>

\* the existence check, Processor(config, model_name) and the entry of the
\* retry loop of process_video
ProcessVideoFile ==
    /\ pc = "init"
    /\ IF video_exists
       THEN /\ StartAttempt(1)
            /\ UNCHANGED <<error_msg, raised, slept, ended>>
       ELSE /\ pc' = "raised"
            /\ raised' = [type |-> "FileNotFoundError",
                          msg |-> <<"Video file not found at ">> \o video_name]
            /\ UNCHANGED <<attempt, fmt, call, error_msg, slept, ended>>
    /\ UNCHANGED <<config_vars, session_vars, loader_vars, invoke_vars, save_vars, lastError,
                   batch_vars, cli_vars>>

(***************************************************************************)
(* Processor.llm and _load_model_with_fallback (lines 42-92)               *)
(***************************************************************************)
\* the cached handle is reused only when it is the primary model's
NeedsLoad_UnlessPrimary(handle) == handle # primary_model_name

\* if self._llm is None   (line 48)
NeedsLoad(handle) == handle = None

\* the loop runs over reversed(models_to_try)
CandidateAt_Reversed(models_to_try, idx) == models_to_try[Len(models_to_try) + 1 - idx]

\* the candidate the for loop of the loader visits in its idx-th iteration
CandidateAt(models_to_try, idx) == models_to_try[idx]

\* the loader keeps the reason of its first failed probe
LoadReason_First(previous, reason) == IF previous = Unbound THEN reason ELSE previous

\* error_msg = str(e)  in the loader: the reason kept after a failed probe
LoadReason(previous, reason) == reason

\* one iteration of the loader's for loop: load_model(model_name, ...) is
\* called for the next candidate and either returns a handle or raises
LoadModel ==
    /\ pc = "call"
    /\ NeedsLoad(llm)
    /\ LET models_to_try == ModelsToTry(primary_model_name, FALLBACK_MODELS)
           model_name == CandidateAt(models_to_try, loadIdx)
       IN  /\ loadRuns' = IF loadIdx = 1 THEN loadRuns + 1 ELSE loadRuns
           /\ probeCount' = [probeCount EXCEPT ![model_name] = @ + 1]
           /\ \/ \* load_model returns: the handle is cached
                 /\ probed' = Append(IF loadIdx = 1 THEN <<>> ELSE probed,
                                     [model |-> model_name, ok |-> TRUE])
                 /\ working_model_name' = model_name
                 /\ llm' = model_name
                 /\ loadIdx' = 1
                 /\ load_error_msg' = Unbound
                 /\ lastError' = NoError
                 /\ UNCHANGED <<ctl_vars, loadSleeps>>
              \/ \* load_model raises: pause, next candidate or give up
                 \E reason \in LoadErrors :
                    /\ probed' = Append(IF loadIdx = 1 THEN <<>> ELSE probed,
                                        [model |-> model_name, ok |-> FALSE])
                    /\ loadSleeps' = loadSleeps + LoadPauseMs
                    /\ lastError' = [attempt |-> attempt, msg |-> reason]
                    /\ UNCHANGED <<llm, working_model_name>>
                    /\ IF loadIdx < Len(models_to_try)
                       THEN /\ loadIdx' = loadIdx + 1
                            /\ load_error_msg' = LoadReason(load_error_msg, reason)
                            /\ UNCHANGED ctl_vars
                       ELSE /\ loadIdx' = 1
                            /\ load_error_msg' = Unbound
                            /\ OnCallError(AllFailedMsg(LoadReason(load_error_msg, reason)))
    /\ UNCHANGED <<config_vars, invoke_vars, save_vars, batch_vars, cli_vars>>

(***************************************************************************)
(* The gateway call of an attempt (lines 134-189)                          *)
(***************************************************************************)
\* self.llm.invoke(...) with the cached handle: it returns a text or raises
Invoke ==
    /\ pc = "call"
    /\ ~NeedsLoad(llm)
    /\ invokes' = [attempt |-> attempt,
                   n |-> IF invokes.attempt = attempt THEN invokes.n + 1 ELSE 1]
    /\ lastCall' = [model |-> llm, shape |-> Shape(fmt, call), attempt |-> attempt]
    /\ \/ \E text \in Responses :
             /\ content_brief' = text
             /\ respondedAt' = attempt
             /\ lastError' = NoError
             /\ AfterInvoke(text, TRUE)
       \/ \E msg \in InvokeErrors :
             /\ UNCHANGED <<content_brief, respondedAt>>
             /\ lastError' = [attempt |-> attempt, msg |-> msg]
             /\ OnCallError(msg)
    /\ UNCHANGED <<config_vars, session_vars, loader_vars, save_vars, batch_vars, cli_vars>>

(***************************************************************************)
(* Saving the brief (lines 191-210)                                        *)
(***************************************************************************)
\* the length of the prefix a failed f.write / close leaves behind
PartialLens(content) == {Len(content) \div 2}

\* the file system after  open(path, 'w')  and a write that stored text
WriteFile(fs, path, text) == (path :> text) @@ fs

\* title extraction, os.makedirs, open, f.write and return
Save ==
    /\ pc = "save"
    /\ title' = extract_title_from_brief(content_brief)
    /\ safe_file_title' = SafeFileTitle(FileTitle(title', video_name))
    /\ LET output_file == OutputFile(content_brief, video_name)
       IN  \/ \* everything works: the brief is written and returned
              /\ files' = WriteFile(files, output_file, content_brief)
              /\ lastWritten' = content_brief
              /\ result' = [text |-> content_brief, path |-> output_file]
              /\ pc' = "returned"
              /\ UNCHANGED <<attempt, fmt, call, error_msg, raised, slept, ended, lastError>>
           \/ \* os.makedirs or open raises: nothing is touched
              /\ UNCHANGED <<files, lastWritten, result>>
              /\ lastError' = [attempt |-> attempt, msg |-> ErrSave]
              /\ Handler(ErrSave, "savefail")
           \/ \* open truncated the file, then f.write or close raises
              \E n \in PartialLens(content_brief) :
                 /\ files' = WriteFile(files, output_file, SubSeq(content_brief, 1, n))
                 /\ lastWritten' = content_brief
                 /\ UNCHANGED result
                 /\ lastError' = [attempt |-> attempt, msg |-> ErrSave]
                 /\ Handler(ErrSave, "savefail")
    /\ UNCHANGED <<config_vars, session_vars, loader_vars, invoke_vars, batch_vars, cli_vars>>

Next ==
    \/ ProcessVideoFile
    \/ LoadModel
    \/ Invoke
    \/ Save

Spec == Init /\ [][Next]_vars

\* the interpreter goes on to the next statement and every call of a
\* collaborator returns or raises: load_model and invoke (weak fairness of
\* the steps before the save) and os.makedirs, open and f.write (the save
\* step, which is possible whenever pc is "save", is not put off forever)
SpecLive ==
    /\ Init
    /\ [][Next]_vars
    /\ WF_vars(ProcessVideoFile \/ LoadModel \/ Invoke)
    /\ []<>(pc # "save")

(***************************************************************************)
(* The save step (lines 191-210) applied to accepted responses             *)
(***************************************************************************)
\* process_video has received an accepted response in its first attempt,
\* from the primary model, which loaded at once; BRIEF_DIR is empty
InitBrief ==
    /\ primary_model_name = GeminiPro
    /\ FALLBACK_MODELS = Absent
    /\ video_name \in BriefVideoNames
    /\ video_exists = TRUE
    /\ pc = "save"
    /\ attempt = 1
    /\ fmt = "generic"
    /\ call = 1
    /\ content_brief \in BriefTexts
    /\ error_msg = Unbound
    /\ llm = GeminiPro
    /\ working_model_name = GeminiPro
    /\ loadIdx = 1
    /\ load_error_msg = Unbound
    /\ files = <<>>
    /\ title = Unbound
    /\ safe_file_title = Unbound
    /\ result = NoResult
    /\ raised = NoException
    /\ probed = <<[model |-> GeminiPro, ok |-> TRUE]>>
    /\ probeCount = [m \in AllModels |-> IF m = GeminiPro THEN 1 ELSE 0]
    /\ loadRuns = 1
    /\ loadSleeps = 0
    /\ slept = [after |-> 0, ms |-> 0]
    /\ ended = [k \in EndKinds |-> 0]
    /\ invokes = [attempt |-> 1, n |-> 1]
    /\ respondedAt = 1
    /\ lastCall = [model |-> GeminiPro, shape |-> Shape("generic", 1), attempt |-> 1]
    /\ lastWritten = Unbound
    /\ lastError = NoError
    /\ InitNoBatch
    /\ InitNoCli

NextBrief == Save

SpecBrief == InitBrief /\ [][NextBrief]_vars

(***************************************************************************)
(* The batch orchestrator (src/src/main.py, process_all_videos and         *)
(* process_video)                                                          *)
(***************************************************************************)
\* base name without extension of video file number k:  ad 1, ad 2, ...
VideoNameOf(k) == <<"a", "d", " ", ToString(k)>>

\* sorted(video_files) of get_video_files, for the set of files found
RECURSIVE Sorted(_)
Sorted(S) ==
    IF S = {} THEN <<>>
    ELSE <<MinOf(S)>> \o Sorted(S \ {MinOf(S)})

\* the exception types that can leave process_video_file
ExceptionTypes == {"FileNotFoundError", "RuntimeError", "UnboundLocalError"}

\* the handlers of main.process_video without  except Exception
Caught_NoGeneric(type) == type \in {"FileNotFoundError", "RuntimeError"}

\* except FileNotFoundError / except RuntimeError / except Exception
Caught(type) ==
    \/ type = "FileNotFoundError"
    \/ type = "RuntimeError"
    \/ type \in ExceptionTypes

\* process_all_videos(config) is called: INPUT_DIR holds up to MaxVideos
\* video files, BRIEF_DIR is empty, no Processor exists
InitBatch ==
    /\ primary_model_name = Gpt4o
    /\ FALLBACK_MODELS = <<>>
    /\ video_name = Unbound
    /\ video_exists = TRUE
    /\ pc = "idle"
    /\ InitProcessor
    /\ stage = "discover"
    /\ input_dir \in {1..n : n \in 0..MaxVideos}
    /\ video_files = Unbound
    /\ file_index = 0
    /\ successful_briefs = 0
    /\ outcomes = <<>>
    /\ counts = NoCounts
    /\ InitNoCli

\* the Processor and the locals of process_video go out of scope
DropProcessor ==
    /\ pc' = "idle"
    /\ attempt' = 0
    /\ fmt' = "generic"
    /\ call' = 1
    /\ content_brief' = Unbound
    /\ error_msg' = Unbound
    /\ llm' = None
    /\ working_model_name' = None
    /\ loadIdx' = 1
    /\ load_error_msg' = Unbound
    /\ title' = Unbound
    /\ safe_file_title' = Unbound
    /\ result' = NoResult
    /\ raised' = NoException
    /\ probed' = <<>>
    /\ probeCount' = [m \in AllModels |-> 0]
    /\ loadRuns' = 0
    /\ loadSleeps' = 0
    /\ slept' = [after |-> 0, ms |-> 0]
    /\ ended' = [k \in EndKinds |-> 0]
    /\ invokes' = [attempt |-> 0, n |-> 0]
    /\ respondedAt' = 0
    /\ lastCall' = NoCall
    /\ lastWritten' = Unbound
    /\ lastError' = NoError

\* get_video_files and the start of process_all_videos (lines 128-140)
GetVideoFiles ==
    /\ stage = "discover"
    /\ video_files' = Sorted(input_dir)
    /\ IF video_files' = <<>>
       THEN /\ stage' = "done"
            /\ counts' = [total |-> 0, successful_briefs |-> 0]
            /\ UNCHANGED <<file_index, successful_briefs>>
       ELSE /\ stage' = "loop"
            /\ successful_briefs' = 0
            /\ file_index' = 1
            /\ UNCHANGED counts
    /\ UNCHANGED <<input_dir, outcomes>>
    /\ UNCHANGED <<config_vars, ctl_vars, session_vars, loader_vars, invoke_vars, save_vars,
                   lastError, cli_vars>>

\* one iteration of the for loop calls main.process_video, which calls
\* process_video_file (lines 142-148, 91-96); the file may be gone by now
StartVideo ==
    /\ stage = "loop"
    /\ stage' = "in_file"
    /\ video_name' = VideoNameOf(video_files[file_index])
    /\ video_exists' \in BOOLEAN
    /\ pc' = "init"
    /\ UNCHANGED <<primary_model_name, FALLBACK_MODELS>>
    /\ UNCHANGED <<attempt, fmt, call, error_msg, raised, slept, ended>>
    /\ UNCHANGED <<session_vars, loader_vars, invoke_vars, save_vars, lastError>>
    /\ UNCHANGED <<input_dir, video_files, file_index, successful_briefs, outcomes, counts>>
    /\ UNCHANGED cli_vars

\* process_video_file has returned or raised: main.process_video turns it
\* into a boolean (lines 97-115), the loop counts it and moves on or
\* process_all_videos returns (lines 150-153)
FinishVideo ==
    /\ stage = "in_file"
    /\ pc \in {"returned", "raised"}
    /\ LET brief_success == pc = "returned" /\ result.path # None
           escapes == pc = "raised" /\ ~Caught(raised.type)
       IN  /\ outcomes' = Append(outcomes,
                                 [video |-> video_files[file_index],
                                  success |-> brief_success,
                                  path |-> result.path,
                                  error |-> raised.type])
           /\ successful_briefs' = IF brief_success THEN successful_briefs + 1
                                   ELSE successful_briefs
           /\ IF escapes
              THEN /\ stage' = "crashed"
                   /\ UNCHANGED <<file_index, counts>>
              ELSE IF file_index < Len(video_files)
              THEN /\ stage' = "loop"
                   /\ file_index' = file_index + 1
                   /\ UNCHANGED counts
              ELSE /\ stage' = "done"
                   /\ counts' = [total |-> Len(video_files),
                                 successful_briefs |-> successful_briefs']
                   /\ UNCHANGED file_index
    /\ DropProcessor
    /\ UNCHANGED <<config_vars, files, input_dir, video_files, cli_vars>>

NextBatch ==
    \/ GetVideoFiles
    \/ StartVideo
    \/ ProcessVideoFile
    \/ LoadModel
    \/ Invoke
    \/ Save
    \/ FinishVideo

SpecBatch == InitBatch /\ [][NextBatch]_vars

(***************************************************************************)
(* The transcript-based command-line tool (src/main.py, src/core,          *)
(* src/utils): main, process_all_videos, process_video, transcribe_video   *)
(* and process_transcript_file                                             *)
(***************************************************************************)
\* the process is still running
NoExit == -1

\* main() has printed no summary
NoSummary == [total |-> -1, transcriptions |-> -1, briefs |-> -1]

\* os.path.splitext(os.path.basename(video_path))[0] of video k:
\* ad, ad_transcript, ad_transcript3, ... in the order sorted() gives them
CliVideoName(k) ==
    IF k = 1 THEN <<"ad">>
    ELSE IF k = 2 THEN <<"ad", "_transcript">>
    ELSE <<"ad", "_transcript", ToString(k)>>

\* the video name process_transcript_file derives from the transcript's file
\* name: a trailing _transcript is cut off
TranscriptVideoName(name) ==
    IF Len(name) > 0 /\ name[Len(name)] = "_transcript"
    THEN SubSeq(name, 1, Len(name) - 1)
    ELSE name

\* os.path.join(config.BRIEF_DIR, f"{video_name}{config.BRIEF_EXTENSION}")
CliBriefFile(name) == <<"BRIEF_DIR", "/">> \o name \o <<"BRIEF_EXTENSION">>

\* transcripts found on disk, texts the transcription engine produces and
\* texts the gateway returns
StoredTranscripts == {<<"words">>}
EngineTexts == {<<"spoken">>, <<>>}
CliResponses == {<<"brief">>, <<>>}

\* the command lines argparse accepts: --all or --video PATH, with or
\* without --transcribe-only
ArgsSet ==
    [all : {TRUE}, video : {0}, transcribe_only : BOOLEAN]
        \cup [all : {FALSE}, video : 1..MaxVideos, transcribe_only : BOOLEAN]

\* python main.py is started, for every command line and every content of
\* the input and transcript directories; BRIEF_DIR is empty
InitCli ==
    /\ primary_model_name = Gpt4o
    /\ FALLBACK_MODELS = <<>>
    /\ video_name = Unbound
    /\ video_exists = TRUE
    /\ pc = "idle"
    /\ InitProcessor
    /\ InitNoBatch
    /\ args \in ArgsSet
    /\ cli_pc = "main"
    /\ exit_code = NoExit
    /\ uncaught = NoException.type
    /\ input_videos \in SUBSET (1..MaxVideos)
    /\ transcript_files \in [1..MaxVideos -> StoredTranscripts \cup {Absent}]
    /\ brief_files = <<>>
    /\ current = 0
    /\ cli_video_files = Unbound
    /\ cli_i = 0
    /\ successful_transcriptions = 0
    /\ cli_successful_briefs = 0
    /\ transcript_text = Unbound
    /\ cli_content_brief = Unbound
    /\ calls = [k \in 1..MaxVideos |-> [transcribe |-> 0, load |-> 0, invoke |-> 0]]
    /\ returns = <<>>
    /\ summary = NoSummary

\* the next statement of the same function is reached
Goto(p) ==
    /\ cli_pc' = p
    /\ UNCHANGED <<exit_code, uncaught, current, cli_i, successful_transcriptions,
                   cli_successful_briefs, returns, summary>>

\* an exception leaves process_video: neither process_all_videos nor main
\* has a try statement, so the interpreter prints the traceback and exits
\* with status 1
Propagate(type) ==
    /\ cli_pc' = "exited"
    /\ exit_code' = 1
    /\ uncaught' = type
    /\ UNCHANGED <<current, cli_i, successful_transcriptions, cli_successful_briefs,
                   returns, summary>>

\* process_video returns (transcription_success, brief_success): the loop of
\* process_all_videos counts it and goes on to the next file, or main prints
\* the summary and falls off its end (main.py lines 125-130, 151-179)
Return(transcription_success, brief_success) ==
    LET st == successful_transcriptions + (IF transcription_success THEN 1 ELSE 0)
        sb == cli_successful_briefs + (IF brief_success THEN 1 ELSE 0)
    IN  /\ returns' = Append(returns, [video |-> current,
                                       transcription_success |-> transcription_success,
                                       brief_success |-> brief_success])
        /\ uncaught' = uncaught
        /\ IF args.all
           THEN /\ successful_transcriptions' = st
                /\ cli_successful_briefs' = sb
                /\ IF cli_i < Len(cli_video_files)
                   THEN /\ cli_i' = cli_i + 1
                        /\ current' = cli_video_files[cli_i + 1]
                        /\ cli_pc' = "video"
                        /\ UNCHANGED <<summary, exit_code>>
                   ELSE /\ summary' = [total |-> Len(cli_video_files),
                                       transcriptions |-> st,
                                       briefs |-> sb]
                        /\ cli_pc' = "exited"
                        /\ exit_code' = 0
                        /\ UNCHANGED <<cli_i, current>>
           ELSE /\ summary' = [total |-> 1, transcriptions |-> st, briefs |-> sb]
                /\ cli_pc' = "exited"
                /\ exit_code' = 0
                /\ UNCHANGED <<cli_i, current, successful_transcriptions,
                               cli_successful_briefs>>

\* the locals of process_transcript_file go out of scope
DropLocals ==
    /\ transcript_text' = Unbound
    /\ cli_content_brief' = Unbound

\* main() up to the first process_video call: with --all the sorted list of
\* get_video_files (empty: the summary 0/0 and the end), with --video the
\* existence test and sys.exit(1)
Main ==
    /\ cli_pc = "main"
    /\ IF args.all
       THEN /\ cli_video_files' = Sorted(input_videos)
            /\ IF cli_video_files' = <<>>
               THEN /\ summary' = [total |-> 0, transcriptions |-> 0, briefs |-> 0]
                    /\ cli_pc' = "exited"
                    /\ exit_code' = 0
                    /\ UNCHANGED <<cli_i, current>>
               ELSE /\ cli_pc' = "video"
                    /\ cli_i' = 1
                    /\ current' = cli_video_files'[1]
                    /\ UNCHANGED <<summary, exit_code>>
       ELSE /\ UNCHANGED <<cli_video_files, cli_i, summary>>
            /\ IF args.video \notin input_videos
               THEN /\ cli_pc' = "exited"
                    /\ exit_code' = 1
                    /\ UNCHANGED current
               ELSE /\ cli_pc' = "video"
                    /\ current' = args.video
                    /\ UNCHANGED exit_code
    /\ UNCHANGED <<args, uncaught, input_videos, transcript_files, brief_files,
                   successful_transcriptions, cli_successful_briefs, transcript_text,
                   cli_content_brief, calls, returns>>
    /\ UNCHANGED <<config_vars, ctl_vars, session_vars, loader_vars, invoke_vars, save_vars,
                   lastError, batch_vars>>

\* another process removes the video file before it is opened
VideoVanishes ==
    /\ cli_pc \in {"video", "transcribe"}
    /\ current \in input_videos
    /\ input_videos' = input_videos \ {current}
    /\ UNCHANGED <<args, cli_pc, exit_code, uncaught, transcript_files, brief_files, current,
                   cli_video_files, cli_i, successful_transcriptions,
                   cli_successful_briefs, transcript_text, cli_content_brief, calls,
                   returns, summary>>
    /\ UNCHANGED <<config_vars, ctl_vars, session_vars, loader_vars, invoke_vars, save_vars,
                   lastError, batch_vars>>

\* process_video without the test for an existing transcript
ProcessVideo_AlwaysTranscribe ==
    /\ cli_pc = "video"
    /\ IF current \notin input_videos
       THEN Return(FALSE, FALSE)
       ELSE Goto("whisper")
    /\ UNCHANGED <<args, input_videos, transcript_files, brief_files, cli_video_files,
                   transcript_text, cli_content_brief, calls>>
    /\ UNCHANGED <<config_vars, ctl_vars, session_vars, loader_vars, invoke_vars, save_vars,
                   lastError, batch_vars>>

\* process_video up to the transcription or the brief (main.py lines 58-81):
\* the existence test, the test for an existing transcript and read_file
ProcessVideo ==
    /\ cli_pc = "video"
    /\ IF current \notin input_videos
       THEN Return(FALSE, FALSE)
       ELSE IF transcript_files[current] # Absent
       THEN \/ \* read_file returns the text
               IF args.transcribe_only THEN Return(TRUE, FALSE) ELSE Goto("brief")
            \/ \* open or read raises in read_file
               Propagate("OSError")
       ELSE Goto("whisper")
    /\ UNCHANGED <<args, input_videos, transcript_files, brief_files, cli_video_files,
                   transcript_text, cli_content_brief, calls>>
    /\ UNCHANGED <<config_vars, ctl_vars, session_vars, loader_vars, invoke_vars, save_vars,
                   lastError, batch_vars>>

\* transcribe_video builds a Transcriber: WhisperModel(...) loads or raises
\* (transcriber.py lines 17-27, 100)
LoadWhisper ==
    /\ cli_pc = "whisper"
    /\ \/ Goto("transcribe")
       \/ Propagate("RuntimeError")
    /\ UNCHANGED <<args, input_videos, transcript_files, brief_files, cli_video_files,
                   transcript_text, cli_content_brief, calls>>
    /\ UNCHANGED <<config_vars, ctl_vars, session_vars, loader_vars, invoke_vars, save_vars,
                   lastError, batch_vars>>

\* transcribe_file (transcriber.py lines 41-85) and the rest of process_video
\* (main.py lines 77-81): only the save of the transcript is in a try
TranscribeFile ==
    /\ cli_pc = "transcribe"
    /\ IF current \notin input_videos
       THEN /\ Return(FALSE, FALSE)
            /\ UNCHANGED <<transcript_files, calls>>
       ELSE /\ calls' = [calls EXCEPT ![current].transcribe = @ + 1]
            /\ \/ \* model.transcribe or the iteration of the segments raises
                  /\ Propagate("RuntimeError")
                  /\ UNCHANGED transcript_files
               \/ \* the transcript is saved
                  \E text \in EngineTexts :
                     /\ transcript_files' = [transcript_files EXCEPT ![current] = text]
                     /\ IF args.transcribe_only THEN Return(TRUE, FALSE) ELSE Goto("brief")
               \/ \* os.makedirs or open raises: saved_path is None
                  /\ UNCHANGED transcript_files
                  /\ Return(FALSE, FALSE)
               \/ \* open created the file, f.write raises: saved_path is None
                  /\ transcript_files' = [transcript_files EXCEPT ![current] = <<>>]
                  /\ Return(FALSE, FALSE)
    /\ UNCHANGED <<args, input_videos, brief_files, cli_video_files, transcript_text,
                   cli_content_brief>>
    /\ UNCHANGED <<config_vars, ctl_vars, session_vars, loader_vars, invoke_vars, save_vars,
                   lastError, batch_vars>>

\* another process removes the transcript before process_transcript_file
\* looks for it
TranscriptVanishes ==
    /\ cli_pc = "brief"
    /\ transcript_files[current] # Absent
    /\ transcript_files' = [transcript_files EXCEPT ![current] = Absent]
    /\ UNCHANGED <<args, cli_pc, exit_code, uncaught, input_videos, brief_files, current,
                   cli_video_files, cli_i, successful_transcriptions,
                   cli_successful_briefs, transcript_text, cli_content_brief, calls,
                   returns, summary>>
    /\ UNCHANGED <<config_vars, ctl_vars, session_vars, loader_vars, invoke_vars, save_vars,
                   lastError, batch_vars>>

\* process_transcript_file up to the Processor (processor.py lines 113-128):
\* the existence test, then open and read outside any try
ReadTranscript ==
    /\ cli_pc = "brief"
    /\ IF transcript_files[current] = Absent
       THEN /\ Return(TRUE, FALSE)
            /\ DropLocals
       ELSE \/ /\ transcript_text' = transcript_files[current]
               /\ Goto("load")
               /\ UNCHANGED cli_content_brief
            \/ /\ Propagate("OSError")
               /\ UNCHANGED <<transcript_text, cli_content_brief>>
    /\ UNCHANGED <<args, input_videos, transcript_files, brief_files, cli_video_files, calls>>
    /\ UNCHANGED <<config_vars, ctl_vars, session_vars, loader_vars, invoke_vars, save_vars,
                   lastError, batch_vars>>

\* self.llm of process_transcript (processor.py lines 33-40, 82): load_model
\* returns the handle, or raises into the except of line 95
LoadGateway ==
    /\ cli_pc = "load"
    /\ calls' = [calls EXCEPT ![current].load = @ + 1]
    /\ \/ /\ Goto("invoke")
          /\ UNCHANGED <<transcript_text, cli_content_brief>>
       \/ /\ Return(TRUE, FALSE)
          /\ DropLocals
    /\ UNCHANGED <<args, input_videos, transcript_files, brief_files, cli_video_files>>
    /\ UNCHANGED <<config_vars, ctl_vars, session_vars, loader_vars, invoke_vars, save_vars,
                   lastError, batch_vars>>

\* the invocation outside the try statement: its exception leaves
\* process_transcript
InvokeGateway_NoTry ==
    /\ cli_pc = "invoke"
    /\ calls' = [calls EXCEPT ![current].invoke = @ + 1]
    /\ \/ \E response \in CliResponses :
             /\ cli_content_brief' = response
             /\ Goto("save")
             /\ UNCHANGED transcript_text
       \/ /\ Propagate("Exception")
          /\ UNCHANGED <<transcript_text, cli_content_brief>>
    /\ UNCHANGED <<args, input_videos, transcript_files, brief_files, cli_video_files>>
    /\ UNCHANGED <<config_vars, ctl_vars, session_vars, loader_vars, invoke_vars, save_vars,
                   lastError, batch_vars>>

\* self.llm.invoke(user_prompt, system=...) (processor.py line 82): returns
\* the brief, or raises into the except of line 95
InvokeGateway ==
    /\ cli_pc = "invoke"
    /\ calls' = [calls EXCEPT ![current].invoke = @ + 1]
    /\ \/ \E response \in CliResponses :
             /\ cli_content_brief' = response
             /\ Goto("save")
             /\ UNCHANGED transcript_text
       \/ /\ Return(TRUE, FALSE)
          /\ DropLocals
    /\ UNCHANGED <<args, input_videos, transcript_files, brief_files, cli_video_files>>
    /\ UNCHANGED <<config_vars, ctl_vars, session_vars, loader_vars, invoke_vars, save_vars,
                   lastError, batch_vars>>

\* the save of process_transcript (processor.py lines 85-97) and the return
\* through process_transcript_file and process_video (main.py lines 84-87)
SaveBrief ==
    /\ cli_pc = "save"
    /\ LET output_file == CliBriefFile(TranscriptVideoName(CliVideoName(current)))
       IN  \/ \* the brief is written and (content_brief, output_file) returned
              /\ brief_files' = WriteFile(brief_files, output_file, cli_content_brief)
              /\ Return(TRUE, TRUE)
           \/ \* os.makedirs or open raises: ("", None)
              /\ UNCHANGED brief_files
              /\ Return(TRUE, FALSE)
           \/ \* open truncated the file, f.write raises: ("", None)
              /\ brief_files' = WriteFile(brief_files, output_file, <<>>)
              /\ Return(TRUE, FALSE)
    /\ DropLocals
    /\ UNCHANGED <<args, input_videos, transcript_files, cli_video_files, calls>>
    /\ UNCHANGED <<config_vars, ctl_vars, session_vars, loader_vars, invoke_vars, save_vars,
                   lastError, batch_vars>>

NextCli ==
    \/ Main
    \/ VideoVanishes
    \/ ProcessVideo
    \/ LoadWhisper
    \/ TranscribeFile
    \/ TranscriptVanishes
    \/ ReadTranscript
    \/ LoadGateway
    \/ InvokeGateway
    \/ SaveBrief

SpecCli == InitCli /\ [][NextCli]_vars

(***************************************************************************)
(* Vocabulary of the properties                                            *)
(***************************************************************************)
\* the priority list of the session
PriorityList == ModelsToTry(primary_model_name, FALLBACK_MODELS)

\* 1-based position of identifier m in list lst (0 when it is not there)
IndexOf(m, lst) ==
    IF InList(m, lst) THEN MinOf({i \in DOMAIN lst : lst[i] = m}) ELSE 0

\* sum of f over the finite set S
RECURSIVE SumOver(_, _)
SumOver(f, S) ==
    IF S = {} THEN 0
    ELSE LET x == CHOOSE y \in S : TRUE IN f[x] + SumOver(f, S \ {x})

\* load_model calls made so far
TotalProbes == SumOver(probeCount, AllModels)

\* attempts that have ended without a saved brief
AttemptsEnded == SumOver(ended, EndKinds)

\* text is a string of at least MinBriefLen characters once trimmed
ValidBrief(text) ==
    /\ text \notin {None, Unbound}
    /\ Len(Strip(text)) >= MinBriefLen

\* a model is loaded in the session
Loaded == llm # None

\* the latest probe of the loader
LastProbe == probed[Len(probed)]

\* process_video_file has ended
Terminated == pc \in {"returned", "raised"}

(***************************************************************************)
(* C1: within one run of the loader the candidates are probed in the order *)
(* of the priority list; a failed probe of a candidate that is not the     *)
(* last one is followed by the probe of the next candidate (no exception   *)
(* leaves the loader); the first candidate that loads becomes the working  *)
(* model and no later candidate is probed.  When the first run loads a     *)
(* model and the first attempt gets a valid answer that is saved, the      *)
(* call returns that answer of the working model.                          *)
(***************************************************************************)
C1_ProbeOrder ==
    /\ Len(probed) <= Len(PriorityList)
    /\ \A i \in DOMAIN probed :
          /\ probed[i].model = PriorityList[i]
          /\ i < Len(probed) => ~probed[i].ok
    /\ (probed # <<>> /\ ~LastProbe.ok /\ Len(probed) < Len(PriorityList))
          => /\ pc = "call"
             /\ raised = NoException
             /\ llm = None
             /\ loadIdx = Len(probed) + 1
    /\ Loaded
          => /\ LastProbe.ok
             /\ working_model_name = LastProbe.model
             /\ llm = working_model_name
    /\ (Loaded /\ loadRuns = 1)
          => \A j \in (Len(probed) + 1)..Len(PriorityList) :
                probeCount[PriorityList[j]] = 0
    /\ (attempt = 1 /\ respondedAt = 1 /\ ValidBrief(content_brief))
          => /\ pc \in {"save", "returned"}
             /\ lastCall.model = working_model_name
    /\ (pc = "returned" /\ attempt = 1)
          => /\ result.text = content_brief
             /\ respondedAt = 1

\* A fails, B loads and answers validly at once, C is never probed
C1_Witness ==
    /\ pc = "returned"
    /\ attempt = 1
    /\ loadRuns = 1
    /\ Len(PriorityList) >= 3
    /\ Len(probed) = 2
    /\ ~probed[1].ok
    /\ working_model_name = PriorityList[2]
    /\ probeCount[PriorityList[3]] = 0
    /\ result.text = content_brief

(***************************************************************************)
(* C2: while one video file is processed, no load_model call follows a     *)
(* successful one, and the number of load_model calls is at most the       *)
(* 1-based position in the priority list of the candidate that loaded.     *)
(***************************************************************************)
C2_ProbeCountBound ==
    Loaded => TotalProbes <= IndexOf(working_model_name, PriorityList)

(***************************************************************************)
(* C3: while one video file is processed, every model identifier is passed *)
(* to load_model at most once.                                             *)
(***************************************************************************)
C3_ProbedAtMostOnce ==
    \A m \in AllModels : probeCount[m] <= 1

(***************************************************************************)
(* C4: once a model is loaded, the handle and the working model never      *)
(* change, load_model is never called again, every invocation goes to      *)
(* that handle, and the call can only end by returning or raising.         *)
(***************************************************************************)
C4_WorkingModelFixed ==
    [][Loaded =>
         /\ llm' = llm
         /\ working_model_name' = working_model_name
         /\ probeCount' = probeCount
         /\ loadRuns' = loadRuns
         /\ probed' = probed
         /\ invokes' # invokes => lastCall'.model = llm]_vars

\* the retries are exhausted on a loaded model while a candidate of the
\* priority list was never probed
C4_Witness ==
    /\ pc = "raised"
    /\ Loaded
    /\ attempt = max_retries
    /\ \E i \in DOMAIN PriorityList : probeCount[PriorityList[i]] = 0

(***************************************************************************)
(* C5 as stated: a terminal failure is raised only after every model of    *)
(* the priority list has been tried (the engine falls through to the next  *)
(* model when the model in use exhausts its retries).                      *)
(***************************************************************************)
C5_FallsThroughOnExhaustion ==
    (pc = "raised" /\ raised.type = "RuntimeError")
        => \A i \in DOMAIN PriorityList : probeCount[PriorityList[i]] > 0

(***************************************************************************)
(* C5 amended: there is no fall-through.  A terminal failure is raised     *)
(* exactly when the three attempts are used up, and when a model is loaded *)
(* at that point it is still the one whose load succeeded and that load is *)
(* the last probe made; a returned text is a non-trivial text that was     *)
(* obtained from the working model, the only model that loaded.            *)
(***************************************************************************)
C5_NoFallThrough ==
    /\ (pc = "raised" /\ video_exists)
          => /\ attempt = max_retries
             /\ AttemptsEnded = max_retries
    /\ (Terminated /\ Loaded)
          => /\ LastProbe.ok
             /\ LastProbe.model = working_model_name
             /\ llm = working_model_name
    /\ pc = "returned"
          => /\ Loaded
             /\ lastCall.model = working_model_name
             /\ ValidBrief(result.text)
             /\ AttemptsEnded = attempt - 1

\* the loaded model used up its three attempts and a model behind it in the
\* priority list was never probed
C5_Witness ==
    /\ pc = "raised"
    /\ Loaded
    /\ ended["error"] = max_retries
    /\ IndexOf(working_model_name, PriorityList) < Len(PriorityList)
    /\ probeCount[PriorityList[Len(PriorityList)]] = 0

(***************************************************************************)
(* C6: when every response is empty, None or shorter than 10 characters    *)
(* once trimmed, process_video writes nothing, does not succeed, and after *)
(* the third attempt raises the RuntimeError "Failed to process video      *)
(* after 3 attempts".                                                      *)
(***************************************************************************)
C6_ShortResponsesExhaust ==
    /\ ended["short"] = max_retries
          => /\ pc = "raised"
             /\ result = NoResult
             /\ DOMAIN files = {}
             /\ raised.type = "RuntimeError"
             /\ Contains(raised.msg, <<"Failed to process video after ", "3", " attempts: ">>)

(***************************************************************************)
(* C7: a returned text equals the content of the file at the returned      *)
(* path and has at least 10 characters once trimmed; every text handed to  *)
(* f.write has at least 10 characters once trimmed, and nothing is         *)
(* returned unless the call ended in "returned".                           *)
(***************************************************************************)
C7_ReturnedTextValid ==
    /\ pc = "returned"
          => /\ result # NoResult
             /\ result.path \in DOMAIN files
             /\ files[result.path] = result.text
             /\ ValidBrief(result.text)
    /\ pc # "returned" => result = NoResult
    /\ pc = "save" => ValidBrief(content_brief)
    /\ lastWritten # Unbound => ValidBrief(lastWritten)

\* a text of exactly 10 characters was saved and returned after a response
\* that only its surrounding blanks make long enough was refused
C7_Witness ==
    /\ pc = "returned"
    /\ Len(result.text) = MinBriefLen
    /\ files[result.path] = result.text
    /\ ended["short"] > 0

(***************************************************************************)
(* C8: when no candidate ever loads, the processing of the file ends with  *)
(* a RuntimeError whose message carries the failure reason of the last     *)
(* candidate probed; nothing is returned and no file is written.           *)
(***************************************************************************)
C8_AllLoadsFail ==
    /\ ~Loaded => (pc \notin {"save", "returned"} /\ result = NoResult /\ DOMAIN files = {})
    /\ (pc = "raised" /\ video_exists /\ ~Loaded)
          => /\ raised.type = "RuntimeError"
             /\ Len(probed) = Len(PriorityList)
             /\ LastProbe.model = PriorityList[Len(PriorityList)]
             /\ ~LastProbe.ok
             /\ lastError.attempt = max_retries
             /\ lastError.msg \in LoadErrors
             /\ Contains(raised.msg, lastError.msg)

\* every probe of every run failed, the last one because of the quota
C8_Witness ==
    /\ pc = "raised"
    /\ video_exists
    /\ ~Loaded
    /\ Len(probed) >= 2
    /\ lastError.msg = ErrLoadQuota
    /\ TotalProbes = 2 * max_retries * Len(PriorityList)

(***************************************************************************)
(* C9: when process_video gives up after the third attempt and a call of   *)
(* that attempt failed last, the error raised is the RuntimeError that     *)
(* carries the text of that failure of the gateway or of the loader.       *)
(***************************************************************************)
C9_LastErrorCarried ==
    (pc = "raised" /\ video_exists /\ lastError.attempt = max_retries)
        => /\ raised.type = "RuntimeError"
           /\ Contains(raised.msg, lastError.msg)

(***************************************************************************)
(* C10: when the attempts before attempt k all ended with an empty or      *)
(* short response and attempt k gets a valid response (and the save does   *)
(* not fail), that response is saved and returned in attempt k; every      *)
(* empty or short response ends its attempt and uses up one attempt.       *)
(***************************************************************************)
C10_ShortThenValid ==
    /\ [](  (/\ attempt >= 1
             /\ ended["short"] = attempt - 1
             /\ ended["savefail"] = 0
             /\ respondedAt = attempt
             /\ ValidBrief(content_brief))
          => /\ pc \in {"save", "returned"}
             /\ pc = "returned" => result.text = content_brief)
    /\ [][(respondedAt' = attempt /\ invokes' # invokes /\ ~ValidBrief(content_brief'))
            => /\ ended'["short"] = ended["short"] + 1
               /\ \/ attempt' = attempt + 1 /\ pc' = "call"
                  \/ attempt = max_retries /\ pc' = "raised"]_vars

\* empty or short, empty or short, then a valid response in the third attempt
C10_Witness ==
    /\ pc = "returned"
    /\ attempt = max_retries
    /\ ended["short"] = max_retries - 1
    /\ respondedAt = max_retries
    /\ result.text = content_brief

(***************************************************************************)
(* C11: when the video path does not exist, process_video_file raises      *)
(* FileNotFoundError (not the RuntimeError of a processing failure) and    *)
(* nothing else happens for that file: no load_model probe, no invoke, no  *)
(* sleep, no file write, no result; and FileNotFoundError is raised for a  *)
(* missing path only.                                                      *)
(***************************************************************************)
C11_MissingFile ==
    /\ ~video_exists
          => /\ pc \in {"init", "raised"}
             /\ pc = "raised" => raised.type = "FileNotFoundError"
             /\ llm = None
             /\ TotalProbes = 0
             /\ loadRuns = 0
             /\ invokes.n = 0
             /\ lastCall = NoCall
             /\ loadSleeps = 0
             /\ slept.ms = 0
             /\ DOMAIN files = {}
             /\ lastWritten = Unbound
             /\ result = NoResult
    /\ raised.type = "FileNotFoundError" => ~video_exists

\* the call has ended on a missing path
C11_Witness ==
    /\ pc = "raised"
    /\ ~video_exists
    /\ raised.type = "FileNotFoundError"
    /\ raised.msg = <<"Video file not found at ">> \o video_name

(***************************************************************************)
(* C12: the priority list starts with the primary model, holds exactly the *)
(* primary model and the configured fallback models (the built-in default  *)
(* list when FALLBACK_MODELS is absent), each identifier once, in the      *)
(* order of their first occurrences, is never empty, and is the list the   *)
(* loader probes.                                                          *)
(***************************************************************************)
C12_PriorityList ==
    LET configured == IF FALLBACK_MODELS = Absent THEN DEFAULT_FALLBACK_MODELS
                      ELSE FALLBACK_MODELS
        given == <<primary_model_name>> \o configured
        L == PriorityList
    IN  /\ Len(L) >= 1
        /\ L[1] = primary_model_name
        /\ \A i, j \in DOMAIN L : i # j => L[i] # L[j]
        /\ {L[i] : i \in DOMAIN L} = {given[i] : i \in DOMAIN given}
        /\ \A i, j \in DOMAIN L : i < j => IndexOf(L[i], given) < IndexOf(L[j], given)
        /\ \A m \in AllModels : probeCount[m] > 0 => InList(m, L)
        /\ Len(probed) <= Len(L)

\* a configured list that names a model twice (the primary model is in the
\* default list) was probed to its end
C12_Witness ==
    /\ FALLBACK_MODELS = Absent
    /\ InList(primary_model_name, DEFAULT_FALLBACK_MODELS)
    /\ Len(PriorityList) = Len(DEFAULT_FALLBACK_MODELS)
    /\ Len(probed) = Len(PriorityList)
    /\ probed[Len(probed)].model = ClaudeSonnet

(***************************************************************************)
(* Vocabulary of the properties of the save step                           *)
(***************************************************************************)
\* the save step has taken the title from the response
TitleTaken == title # Unbound

\* the characters the sanitized name may keep: alphanumerics, the blank
\* and - _ ( ) [ ]
Allowed(c) == IsAlnum(c) \/ c \in {" ", "-", "_", "(", ")", "[", "]"}

\* reference: the allowed characters of t, in their order
RECURSIVE RefKeep(_)
RefKeep(t) ==
    IF t = <<>> THEN <<>>
    ELSE (IF Allowed(Head(t)) THEN <<Head(t)>> ELSE <<>>) \o RefKeep(Tail(t))

\* reference: t without its leading white space
RECURSIVE RefTrimLeft(_)
RefTrimLeft(t) ==
    IF t # <<>> /\ IsSpace(Head(t)) THEN RefTrimLeft(Tail(t)) ELSE t

\* reference: t without its trailing white space
RECURSIVE RefTrimRight(_)
RefTrimRight(t) ==
    IF t # <<>> /\ IsSpace(t[Len(t)]) THEN RefTrimRight(SubSeq(t, 1, Len(t) - 1)) ELSE t

\* reference: every blank of t replaced by an underscore
RECURSIVE RefUnderscore(_)
RefUnderscore(t) ==
    IF t = <<>> THEN <<>>
    ELSE <<IF Head(t) = " " THEN "_" ELSE Head(t)>> \o RefUnderscore(Tail(t))

\* reference sanitization: keep, trim, underscore
RefSanitize(t) == RefUnderscore(RefTrimRight(RefTrimLeft(RefKeep(t))))

\* the path of the brief with file name stem  stem
BriefPath(stem) == <<"BRIEF_DIR", "/">> \o stem \o <<"BRIEF_EXTENSION">>

(***************************************************************************)
(* C13: the three patterns are tried in the order 1 (Ad ...: "..."),       *)
(* 2 (Video Title: "..."), 3 (Title: at a line start) and the capture of   *)
(* the first one that matches anywhere in the text is the title, wherever  *)
(* the lines of the other patterns stand; without a match the title is     *)
(* None.  On responses made of the lines Ad 3: "Foo", Video Title: "Baz",  *)
(* Title: "Bar" and a line of text, in any order: Foo if the Ad line is    *)
(* there, else Baz if the Video Title line is there, else Bar if the Title *)
(* line is there, else None.                                               *)
(***************************************************************************)
C13_TitlePrecedence ==
    (TitleTaken /\ content_brief \in PrecedenceBriefs)
        => title = IF Contains(content_brief, AdFooLine) THEN Foo
                   ELSE IF Contains(content_brief, VideoTitleBazLine) THEN Baz
                   ELSE IF Contains(content_brief, TitleBarLine) THEN Bar
                   ELSE None

\* Title: "Bar" stands before Ad 3: "Foo" and the brief is saved as Foo
C13_Witness ==
    /\ pc = "returned"
    /\ content_brief = JoinLines(<<TitleBarLine, AdFooLine>>)
    /\ title = Foo
    /\ result.path = BriefPath(Foo)

(***************************************************************************)
(* C14: the third pattern matches Title: in any letter case at the start   *)
(* of a line (TITLE: "Bar" gives Bar, title: Foo gives Foo), accepts an    *)
(* optional opening quote and captures the rest of that line only: the     *)
(* title never contains a line break (Title: Foo followed by a line of     *)
(* text gives Foo).                                                        *)
(***************************************************************************)
C14_Pattern3SameLine ==
    (TitleTaken /\ content_brief \in Pattern3Briefs)
        => /\ content_brief = LowerTitleBrief => title = Foo
           /\ content_brief = UpperTitleBrief => title = Bar
           /\ content_brief = IndentedTitleBrief => title = Bar
           /\ content_brief = TwoLineTitleBrief => title = Foo
           /\ content_brief = MidLineTitleBrief => title = None
           /\ title # None => ~InList("\n", title)

(***************************************************************************)
(* C15: the sanitized name equals the reference (keep the alphanumerics,   *)
(* blanks and - _ ( ) [ ] in their order, strip the white space at both    *)
(* ends, replace every blank left by an underscore) applied to the title,  *)
(* or to the video name when there is no title; it holds only              *)
(* alphanumerics and - _ ( ) [ ], never a blank or a path separator.       *)
(***************************************************************************)
C15_Sanitization ==
    TitleTaken
        => /\ safe_file_title
                = RefSanitize(IF title = None \/ title = <<>> THEN video_name ELSE title)
           /\ \A i \in DOMAIN safe_file_title :
                 /\ Allowed(safe_file_title[i])
                 /\ safe_file_title[i] \notin {" ", "/", "\\", "\n"}

\* the title  (a-b)_[1]  between two blanks keeps everything but the blanks
C15_Witness ==
    /\ pc = "returned"
    /\ title = <<" ", "(", "a", "-", "b", ")", "_", "[", "1", "]", " ">>
    /\ safe_file_title = <<"(", "a", "-", "b", ")", "_", "[", "1", "]">>

\* the title My/Ad: Test*
SlashTitle == <<"M", "y", "/", "A", "d", ":", " ", "T", "e", "s", "t", "*">>

(***************************************************************************)
(* C16 as stated: sanitizing the title My/Ad: Test* yields My_Ad_Test.     *)
(***************************************************************************)
C16_SlashExample ==
    (TitleTaken /\ title = SlashTitle) => safe_file_title = <<"M", "y", "_", "A", "d", "_", "T", "e", "s", "t">>

(***************************************************************************)
(* C16 amended: sanitizing the title My/Ad: Test* yields MyAd_Test (the    *)
(* slash, the colon and the asterisk are dropped, the blank becomes an     *)
(* underscore).                                                            *)
(***************************************************************************)
C16_SlashExampleDropped ==
    (TitleTaken /\ title = SlashTitle) => safe_file_title = <<"M", "y", "A", "d", "_", "T", "e", "s", "t">>

\* the brief with the title My/Ad: Test* is saved as MyAd_Test
C16_Witness ==
    /\ pc = "returned"
    /\ title = SlashTitle
    /\ result.path = BriefPath(<<"M", "y", "A", "d", "_", "T", "e", "s", "t">>)

C18_AllOrNothing ==
    /\ pc = "returned"
          => /\ result.path \in DOMAIN files
             /\ files[result.path] = result.text
    /\ pc = "raised" => DOMAIN files = {}

(***************************************************************************)
(* Vocabulary of the properties of the batch                               *)
(***************************************************************************)
\* the positions of outcomes that hold a saved path
SavedOutcomes == {i \in DOMAIN outcomes : outcomes[i].path # None}

(***************************************************************************)
(* C19: saving never silently overwrites an existing brief: two videos of  *)
(* one batch that were both reported as saved do not share their output    *)
(* path (the later save would have replaced the earlier brief without any  *)
(* signal to the caller).                                                  *)
(***************************************************************************)
C19_NoSilentOverwrite ==
    \A i, j \in DOMAIN outcomes :
        (i < j /\ outcomes[i].success /\ outcomes[j].success)
            => outcomes[i].path # outcomes[j].path

(***************************************************************************)
(* C20: process_all_videos processes every discovered video exactly once,  *)
(* in sorted order; whatever exception ends the processing of a file, the  *)
(* batch goes on with the next file and never aborts; the returned counts  *)
(* satisfy 0 <= successful_briefs <= total = number of discovered files,   *)
(* and successful_briefs is the number of files whose processing returned  *)
(* a saved path.                                                           *)
(***************************************************************************)
C20_BatchCounts ==
    /\ stage \in {"discover", "loop", "in_file", "done"}
    /\ Len(outcomes) <= Cardinality(input_dir)
    /\ \A i \in DOMAIN outcomes :
          /\ outcomes[i].video = Sorted(input_dir)[i]
          /\ outcomes[i].success <=> outcomes[i].path # None
          /\ outcomes[i].success <=> outcomes[i].error = "none"
    /\ successful_briefs = Cardinality(SavedOutcomes)
    /\ stage = "loop" => file_index = Len(outcomes) + 1
    /\ stage = "in_file" => file_index = Len(outcomes) + 1
    /\ stage = "done"
          => /\ Len(outcomes) = Cardinality(input_dir)
             /\ counts.total = Cardinality(input_dir)
             /\ counts.successful_briefs = Cardinality(SavedOutcomes)
             /\ 0 <= counts.successful_briefs
             /\ counts.successful_briefs <= counts.total
    /\ stage # "done" => counts = NoCounts

\* the first file ended in an UnboundLocalError, the last one was saved, and
\* the batch returned one success out of all files
C20_Witness ==
    /\ stage = "done"
    /\ Len(outcomes) = MaxVideos
    /\ outcomes[1].error = "UnboundLocalError"
    /\ outcomes[MaxVideos].success
    /\ counts.total = MaxVideos
    /\ counts.successful_briefs >= 1
    /\ counts.successful_briefs < MaxVideos

(***************************************************************************)
(* Vocabulary of the properties of the request shapes and the waits        *)
(***************************************************************************)
\* this step makes a gateway invocation
InvokeStep == invokes' # invokes

\* this step makes a gateway invocation and the invocation raises
InvokeFails == InvokeStep /\ lastError' # NoError

\* the step ends attempt k and starts the next one
NextAttemptStarts == attempt' = attempt + 1 /\ pc' = "call"

\* the signature of the format incompatibility
FormatSignature == <<"Unknown field", " for GenerationConfig: system">>

\* the text tells of a rate limit or an exhausted quota
MentionsRateLimit(msg) ==
    \E i \in DOMAIN msg : msg[i] \in {"Rate Limit", "rate limit", "Quota", "quota"}

\* min(2 * k, 10) seconds, in milliseconds
BackoffMs(k) == IF 2 * k <= 10 THEN 2000 * k ELSE 10000

(***************************************************************************)
(* C22: in every attempt made with a Gemini-family model, the first        *)
(* attempt with its lazy load included, the first invocation of the        *)
(* attempt sends the two-element payload [instruction, media reference]    *)
(* and no system parameter.                                                *)
(***************************************************************************)
C22_GeminiFirstShape ==
    (lastCall # NoCall /\ Family(lastCall.model) = "gemini" /\ invokes.n = 1)
        => lastCall.shape = "instruction_array"

(***************************************************************************)
(* C23: every invocation of a Claude-family model, the first attempt       *)
(* included, passes the media reference with the system prompt as the      *)
(* separate system parameter; the array payload is never sent to it.       *)
(***************************************************************************)
C23_ClaudeShape ==
    (lastCall # NoCall /\ Family(lastCall.model) = "claude")
        => lastCall.shape = "system_parameter"

C25_GenericFallback ==
    /\ []((lastCall # NoCall /\ Family(lastCall.model) = "generic" /\ invokes.n = 1)
            => lastCall.shape = "system_parameter")
    /\ []((lastCall # NoCall /\ Family(lastCall.model) = "generic" /\ invokes.n = 2)
            => lastCall.shape = "prompt_array")
    /\ [][(InvokeFails /\ Family(llm) = "generic" /\ invokes'.n = 1)
            => /\ pc' = "call"
               /\ attempt' = attempt
               /\ error_msg' = error_msg
               /\ ended' = ended]_vars

(***************************************************************************)
(* C26: when an invocation of the working model fails in attempt k < 3     *)
(* with a rate-limit or quota error and the attempt ends, the engine       *)
(* sleeps exactly min(2k, 10) seconds before attempt k+1, whatever the     *)
(* provider family.                                                        *)
(***************************************************************************)
C26_RateLimitBackoff ==
    [][(/\ InvokeFails
        /\ MentionsRateLimit(lastError'.msg)
        /\ ~Contains(lastError'.msg, FormatSignature)
        /\ NextAttemptStarts)
          => slept' = [after |-> attempt, ms |-> BackoffMs(attempt)]]_vars

(***************************************************************************)
(* C27: when an invocation fails in attempt k < 3 with an error that is    *)
(* neither a format incompatibility nor a rate-limit or quota error and    *)
(* the attempt ends, the engine sleeps 1 second before attempt k+1.        *)
(***************************************************************************)
C27_FixedPause ==
    [][(/\ InvokeFails
        /\ ~MentionsRateLimit(lastError'.msg)
        /\ ~Contains(lastError'.msg, FormatSignature)
        /\ NextAttemptStarts)
          => slept' = [after |-> attempt, ms |-> 1000]]_vars

(***************************************************************************)
(* C28: when attempt k < 3 fails with an error that carries the signature  *)
(* 'Unknown field for GenerationConfig: system', attempt k+1 starts with   *)
(* no sleep at all, also when the text mentions a rate limit or a quota.   *)
(***************************************************************************)
C28_FormatErrorNoSleep ==
    [][(/\ InvokeFails
        /\ Contains(lastError'.msg, FormatSignature)
        /\ NextAttemptStarts)
          => /\ error_msg' = lastError'.msg
             /\ slept' = [after |-> attempt, ms |-> 0]
             /\ loadSleeps' = loadSleeps]_vars

\* the first attempt failed with the format error that also reports the
\* quota and the second attempt started without a wait
C28_Witness ==
    /\ attempt = 2
    /\ pc = "call"
    /\ error_msg = ErrSystemFieldQuota
    /\ MentionsRateLimit(error_msg)
    /\ slept = [after |-> 1, ms |-> 0]

(***************************************************************************)
(* C29: after an attempt failed with the format incompatibility, the       *)
(* first invocation of the next attempt does not send the payload shape    *)
(* that was just rejected.                                                 *)
(***************************************************************************)
C29_AlternateShape ==
    [][(/\ InvokeStep
        /\ invokes'.n = 1
        /\ invokes.attempt = attempt - 1
        /\ lastError.attempt = attempt - 1
        /\ Contains(lastError.msg, FormatSignature)
        /\ error_msg = lastError.msg)
          => lastCall'.shape # lastCall.shape]_vars

(***************************************************************************)
(* C30: for every accepted response and every video name, the stem of the  *)
(* brief's file name is not empty and holds no path separator, and the     *)
(* file is created directly inside BRIEF_DIR.                              *)
(***************************************************************************)
C30_StemNonEmpty ==
    TitleTaken
        => /\ safe_file_title # <<>>
           /\ \A i \in DOMAIN safe_file_title : safe_file_title[i] \notin {"/", "."}
           /\ pc = "returned" => result.path = BriefPath(safe_file_title)

(***************************************************************************)
(* C21: the command-line tool exits with status 1 only when the file named *)
(* with --video does not exist; with --all it never fails: whatever the    *)
(* transcription or the brief generation of one file does, every file is   *)
(* processed, the counts are reported and the exit status is 0.            *)
(***************************************************************************)
C21_BatchNeverFails ==
    cli_pc = "exited"
        => /\ exit_code = 1
                => /\ ~args.all
                   /\ args.video \notin input_videos
                   /\ returns = <<>>
           /\ args.all
                => /\ exit_code = 0
                   /\ uncaught = NoException.type
                   /\ Len(returns) = Len(cli_video_files)
                   /\ summary.total = Len(cli_video_files)
                   /\ summary.transcriptions
                        = Cardinality({k \in DOMAIN returns :
                                           returns[k].transcription_success})
                   /\ summary.briefs
                        = Cardinality({k \in DOMAIN returns : returns[k].brief_success})

(***************************************************************************)
(* C31: an attempt writes and returns a brief only if a gateway invocation *)
(* made in that same attempt returned that text; an attempt in which every *)
(* invocation raised neither ends in success nor writes a text obtained in *)
(* an earlier attempt.                                                     *)
(***************************************************************************)
C31_TextOfSameAttempt ==
    [][(pc = "save" /\ (files' # files \/ pc' = "returned"))
          => /\ respondedAt = attempt
             /\ invokes.attempt = attempt]_vars

EngineCalled == \E k \in DOMAIN calls : calls'[k].transcribe # calls[k].transcribe

\* this step calls the gateway (load_model or llm.invoke)
GatewayCalled ==
    \E k \in DOMAIN calls : \/ calls'[k].load # calls[k].load
                            \/ calls'[k].invoke # calls[k].invoke

\* this step is a return of process_video
Returned == Len(returns') = Len(returns) + 1

\* no call was made for video k
NoCalls(k) == calls[k] = [transcribe |-> 0, load |-> 0, invoke |-> 0]

(***************************************************************************)
(* C33: in process_video of the transcript-based tool the transcription    *)
(* engine is invoked only when the video has no transcript file yet; the   *)
(* gateway is invoked only if transcribe_only is false and a transcript    *)
(* is available; brief_success implies transcription_success,              *)
(* transcribe_only implies that brief_success is false, and a missing      *)
(* video returns (False, False) with neither transcription nor gateway     *)
(* called.                                                                 *)
(***************************************************************************)
C33_TranscriptPipeline ==
    /\ [](\A i \in DOMAIN returns :
             /\ returns[i].brief_success => returns[i].transcription_success
             /\ args.transcribe_only => ~returns[i].brief_success
             /\ returns[i].brief_success
                  => /\ transcript_files[returns[i].video] # Absent
                     /\ calls[returns[i].video].invoke = 1)
    /\ [](\A k \in DOMAIN calls :
             /\ calls[k].transcribe <= 1
             /\ args.transcribe_only => (calls[k].load = 0 /\ calls[k].invoke = 0))
    /\ [][EngineCalled
            => /\ transcript_files[current] = Absent
               /\ current \in input_videos
               /\ calls'[current].transcribe = calls[current].transcribe + 1
               /\ \A k \in DOMAIN calls : k # current => calls'[k] = calls[k]]_vars
    /\ [][GatewayCalled
            => /\ ~args.transcribe_only
               /\ transcript_files[current] # Absent
               /\ transcript_text = transcript_files[current]
               /\ \A k \in DOMAIN calls : k # current => calls'[k] = calls[k]]_vars
    /\ [][(Returned /\ cli_pc = "video" /\ current \notin input_videos)
            => /\ returns'[Len(returns')] = [video |-> current,
                                             transcription_success |-> FALSE,
                                             brief_success |-> FALSE]
               /\ NoCalls(current)
               /\ calls' = calls
               /\ transcript_files' = transcript_files
               /\ brief_files' = brief_files]_vars

\* a batch in which one video was gone when its turn came and returned
\* (False, False) without any call, and another one was transcribed by the
\* engine and got its brief
C33_Witness ==
    /\ cli_pc = "exited"
    /\ args.all
    /\ \E i, j \in DOMAIN returns :
          /\ ~returns[i].transcription_success
          /\ ~returns[i].brief_success
          /\ returns[i].video \notin input_videos
          /\ NoCalls(returns[i].video)
          /\ returns[j].brief_success
          /\ calls[returns[j].video] = [transcribe |-> 1, load |-> 1, invoke |-> 1]

(***************************************************************************)
(* C34: process_transcript of the transcript-based tool makes one model    *)
(* load and at most one gateway invocation per transcript, with no retry   *)
(* and no fallback; an exception of the load, the invocation or the save   *)
(* becomes the value ('', None) and never propagates; a path that is not   *)
(* None is returned only after BRIEF_DIR/<video_name><ext> was written     *)
(* with exactly the text the gateway returned; process_transcript_file     *)
(* returns ('', None) without load or invocation when the transcript file  *)
(* does not exist.                                                         *)
(***************************************************************************)
C34_ProcessTranscript ==
    /\ [](\A k \in DOMAIN calls :
             /\ calls[k].load <= 1
             /\ calls[k].invoke <= calls[k].load)
    /\ [](cli_pc = "invoke" => calls[current] = [transcribe |-> calls[current].transcribe,
                                                 load |-> 1, invoke |-> 0])
    /\ [](cli_pc = "save" => calls[current].invoke = 1)
    /\ [][(cli_pc \in {"load", "invoke", "save"})
            => /\ uncaught' = NoException.type
               /\ exit_code' # 1
               /\ (cli_pc' \in {"invoke", "save"} \/ Returned)]_vars
    /\ [][(Returned /\ returns'[Len(returns')].brief_success)
            => /\ cli_pc = "save"
               /\ calls[current].load = 1
               /\ calls[current].invoke = 1
               /\ cli_content_brief \in CliResponses
               /\ BriefPath(TranscriptVideoName(CliVideoName(current))) \in DOMAIN brief_files'
               /\ brief_files'[BriefPath(TranscriptVideoName(CliVideoName(current)))]
                    = cli_content_brief]_vars
    /\ [][(cli_pc = "brief" /\ transcript_files[current] = Absent /\ vars' # vars)
            => /\ Returned
               /\ ~returns'[Len(returns')].brief_success
               /\ calls' = calls
               /\ brief_files' = brief_files]_vars

\* the run ended normally after one transcript whose invocation or save
\* raised (one load, one invocation, no brief) and one transcript whose
\* brief was written with the text of the gateway
C34_Witness ==
    /\ cli_pc = "exited"
    /\ exit_code = 0
    /\ \E i, j \in DOMAIN returns :
          /\ returns[i].transcription_success
          /\ ~returns[i].brief_success
          /\ calls[returns[i].video].load = 1
          /\ calls[returns[i].video].invoke = 1
          /\ returns[j].brief_success
          /\ BriefPath(TranscriptVideoName(CliVideoName(returns[j].video)))
                \in DOMAIN brief_files

====
